---- MODULE Spec2Model ----
(***************************************************************************)
(* A model of the BI Genie backend (deployment/backend/main.py): the       *)
(* per-session conversation state machine, the RBAC verification of the    *)
(* caller's claimed identity and datasets, the extraction, normalisation   *)
(* and validation of the build plan, and the dashboard build.              *)
(*                                                                         *)
(* Text is a sequence of one-character strings.  A few fixed runs of       *)
(* characters that no operation looks into are written as one element      *)
(* ("<directive>", "<prose>", the body of a JSON object such as "<one>").  *)
(* A coroutine runs atomically from one await to the next: every action of *)
(* a request handler is one such stretch of code.                          *)
(***************************************************************************)
EXTENDS Integers, Sequences, FiniteSets, TLC

(***************************************************************************)
(* Bounds of the model.                                                    *)
(***************************************************************************)
MaxRequests == 3      \* message requests accepted in one run, one at a time
MaxOverlap == 2       \* message requests accepted in a run with two in flight
MaxRefresh == 1       \* catalog refreshes started in one run
MaxRepeat == 3        \* catalog refreshes started in a run of refreshes
MaxRace == 4          \* messages sent to the one key of the confirmation race
TickStep == 2000      \* seconds the clock advances in one Tick
MaxTime == 2000       \* the clock stops here
MaxPair == 2          \* message requests accepted in a run with two session keys
MaxClaimed == 2       \* datasets in a claim given to verify_user_context alone
MaxPlanCharts == 2    \* charts in a plan given to the plan functions alone
MaxCharts == 5        \* chart ids given to _build_position_json alone

(***************************************************************************)
(* Python values.                                                          *)
(***************************************************************************)
None == [none |-> TRUE]

EmptyDict == [k \in {} |-> None]

\* a value of a variable that may hold None instead
Just(v) == [value |-> v]

\* dict.get(key, default)
Get(d, k, default) == IF k \in DOMAIN d THEN d[k] ELSE default

\* truthiness of a value that is a dict or None
Truthy(d) == d # None /\ d # EmptyDict

(***************************************************************************)
(* Text.                                                                   *)
(***************************************************************************)
UpperCase == <<"A","B","C","D","E","F","G","H","I","J","K","L","M",
               "N","O","P","Q","R","S","T","U","V","W","X","Y","Z">>
LowerCase == <<"a","b","c","d","e","f","g","h","i","j","k","l","m",
               "n","o","p","q","r","s","t","u","v","w","x","y","z">>

LowerChar(c) ==
    IF \E i \in 1..26 : UpperCase[i] = c
    THEN LowerCase[CHOOSE i \in 1..26 : UpperCase[i] = c]
    ELSE c

\* str.lower()
Lower(s) == [i \in 1..Len(s) |-> LowerChar(s[i])]

Whitespace == {" ", "\n", "\t"}

\* str.strip()
Strip(s) ==
    LET keep == {i \in 1..Len(s) : s[i] \notin Whitespace}
    IN  IF keep = {} THEN <<>>
        ELSE LET lo == CHOOSE i \in keep : \A j \in keep : i <= j
                 hi == CHOOSE i \in keep : \A j \in keep : j <= i
             IN  SubSeq(s, lo, hi)

\* p occurs in s at (1-based) position i
OccursAt(s, p, i) ==
    /\ i + Len(p) - 1 <= Len(s)
    /\ \A j \in 1..Len(p) : s[i + j - 1] = p[j]

\* the positions at which p occurs in s
Occurrences(s, p) == {i \in 1..(Len(s) + 1) : OccursAt(s, p, i)}

\* p in s
Contains(s, p) == Occurrences(s, p) # {}

\* s.startswith(p)
StartsWith(s, p) == OccursAt(s, p, 1)

Min(S) == CHOOSE x \in S : \A y \in S : x <= y
Max(S) == CHOOSE x \in S : \A y \in S : y <= x

\* s.find(c) and s.rfind(c) as 1-based positions, 0 when c does not occur
Find(s, c) == IF Contains(s, <<c>>) THEN Min(Occurrences(s, <<c>>)) ELSE 0
RFind(s, c) == IF Contains(s, <<c>>) THEN Max(Occurrences(s, <<c>>)) ELSE 0

(***************************************************************************)
(* _is_yes: the confirmation vocabulary, matched as substrings of the      *)
(* lower-cased, stripped message.                                          *)
(***************************************************************************)
YES == { <<"y","e","s">>, <<"y","e","p">>, <<"o","k">>, <<"o","k","a","y">>,
         <<"s","u","r","e">>, <<"c","o","r","r","e","c","t">>,
         <<"r","i","g","h","t">>,
         <<"l","o","o","k","s"," ","g","o","o","d">>,
         <<"b","u","i","l","d"," ","i","t">>,
         <<"g","o"," ","a","h","e","a","d">>,
         <<"d","o"," ","i","t">>,
         <<"p","r","o","c","e","e","d">> }

\* _is_yes without lower()
_is_yes_cased(msg) ==
    LET m == Strip(msg)
    IN  \E w \in YES : Contains(m, w)

_is_yes(msg) ==
    LET m == Strip(Lower(msg))
    IN  \E w \in YES : Contains(m, w)

(***************************************************************************)
(* Results of operations that may raise.                                   *)
(***************************************************************************)
Return(v) == [raised |-> FALSE, value |-> v]
Raise(e) == [raised |-> TRUE, error |-> e]

(***************************************************************************)
(* Build plans.  A JSON object in a model response is "{", one element     *)
(* standing for its body, "}"; JsonObject gives the dict json.loads makes  *)
(* of it.  Any other text between the braces is not JSON.                  *)
(***************************************************************************)
ChartSpec(ds, title) ==
    [dataset_id |-> ds, metric_column |-> "amount", dimension_column |-> "region",
     chart_type |-> "bar", chart_title |-> title]

JsonBodies == {"<one>", "<two>", "<other>", "<legacy>", "<untitled>",
               "<nocharts>", "<partial>"}

JsonObject(body) ==
    CASE body = "<one>" ->
           [dashboard_title |-> "Sales", charts |-> <<ChartSpec(1, "c1")>>]
      [] body = "<two>" ->
           [dashboard_title |-> "Sales",
            charts |-> <<ChartSpec(1, "c1"), ChartSpec(2, "c2")>>]
      [] body = "<other>" ->
           [dashboard_title |-> "Sales", charts |-> <<ChartSpec(42, "c1")>>]
      [] body = "<legacy>" ->
           ChartSpec(2, "c2")
      [] body = "<untitled>" ->
           [charts |-> <<ChartSpec(1, "c1")>>]
      [] body = "<nocharts>" ->
           [dashboard_title |-> "Sales", charts |-> <<>>]
      [] body = "<partial>" ->
           [dashboard_title |-> "Sales",
            charts |-> <<[dataset_id |-> 1, chart_title |-> "c1"]>>]

\* json.loads of a text that begins with "{"
JsonLoads(text) ==
    IF Len(text) = 3 /\ text[1] = "{" /\ text[3] = "}" /\ text[2] \in JsonBodies
    THEN Return(JsonObject(text[2]))
    ELSE Raise("JSONDecodeError")

\* the backquote character (a string of the module cannot hold it)
Backquote == "BACKQUOTE"

Fence == <<Backquote, Backquote, Backquote>>

_parse_json(reply) ==
    LET t0 == Strip(reply)
        \* text.split("\n", 1)[-1]
        t1 == IF StartsWith(t0, Fence) /\ Contains(t0, <<"\n">>)
              THEN SubSeq(t0, Find(t0, "\n") + 1, Len(t0))
              ELSE t0
        \* text.rsplit(fence, 1)[0]
        t2 == IF StartsWith(t0, Fence) /\ Contains(t1, Fence)
              THEN SubSeq(t1, 1, Max(Occurrences(t1, Fence)) - 1)
              ELSE t1
        start == Find(t2, "{")
        end == RFind(t2, "}")
    IN  IF start = 0 \/ end = 0
        THEN Raise("No JSON object found in response")
        ELSE JsonLoads(SubSeq(t2, start, end))

ChartKeys == {"dataset_id", "metric_column", "dimension_column",
              "chart_type", "chart_title"}

\* the conversion without the placeholder title
normalize_without_default(config) ==
    IF "charts" \in DOMAIN config
    THEN Return(config)
    ELSE IF ~(ChartKeys \subseteq DOMAIN config)
         THEN Raise("KeyError")
         ELSE Return(
                [k \in {"charts"} \cup (DOMAIN config \cap {"dashboard_title"}) |->
                    IF k = "charts" THEN << [c \in ChartKeys |-> config[c]] >>
                    ELSE config[k]])

_normalize_config(config) ==
    IF "charts" \in DOMAIN config
    THEN Return(config)
    ELSE IF ~(ChartKeys \subseteq DOMAIN config)
         THEN Raise("KeyError")
         ELSE Return(
                [dashboard_title |-> Get(config, "dashboard_title", "Dashboard"),
                 charts |-> << [k \in ChartKeys |-> config[k]] >>])

\* { info["id"] for info in mapping.values() }
Ids(mapping) == {mapping[n].id : n \in DOMAIN mapping}

\* the mapping whose ids validation accepts
DsSource(user_datasets, catalog) ==
    IF Truthy(user_datasets) THEN user_datasets ELSE catalog

\* the first chart that validation rejects, 0 when there is none
FirstBadChart(charts, known_ids) ==
    LET bad == {i \in 1..Len(charts) :
                   \/ ~(ChartKeys \subseteq DOMAIN charts[i])
                   \/ charts[i].dataset_id \notin known_ids}
    IN  IF bad = {} THEN 0 ELSE Min(bad)

\* the validation without the test for an empty charts sequence
validate_without_empty_test(config, user_datasets, catalog) ==
    IF "dashboard_title" \notin DOMAIN config
    THEN Raise("Missing dashboard_title")
    ELSE LET charts == Get(config, "charts", <<>>)
             known_ids == Ids(DsSource(user_datasets, catalog))
             i == FirstBadChart(charts, known_ids)
         IN  IF i = 0 THEN Return(None)
             ELSE IF ~(ChartKeys \subseteq DOMAIN charts[i])
                  THEN Raise("missing keys")
                  ELSE Raise("not accessible")

_validate_config(config, user_datasets, catalog) ==
    IF "dashboard_title" \notin DOMAIN config
    THEN Raise("Missing dashboard_title")
    ELSE LET charts == Get(config, "charts", <<>>)
             known_ids == Ids(DsSource(user_datasets, catalog))
             i == FirstBadChart(charts, known_ids)
         IN  IF charts = <<>> THEN Raise("No charts in config")
             ELSE IF i = 0 THEN Return(None)
             ELSE IF ~(ChartKeys \subseteq DOMAIN charts[i])
                  THEN Raise("missing keys")
                  ELSE Raise("not accessible")

(***************************************************************************)
(* RBAC: verification of the claimed user context.                         *)
(***************************************************************************)
\* the identity store of the analytics platform: username -> user id
UserStore == [bob |-> 7]

\* how the identity query ends: answered, answered with an error status,
\* or an exception (login, transport)
Lookups == {"answered", "status_error", "exception"}

ClaimedUser(user_context) == Get(user_context, "user", None)

Username(user_context) == Get(ClaimedUser(user_context), "username", "")

\* verify_user_context gets as far as its first await: the claim names a user
HasUsername(user_context) ==
    /\ Truthy(user_context)
    /\ Truthy(ClaimedUser(user_context))
    /\ Username(user_context) # ""

\* the claimed entry raises KeyError in the cross-reference loop
BadEntry(ds, admin_dataset_ids) ==
    \/ "id" \notin DOMAIN ds
    \/ /\ ds.id \in admin_dataset_ids
       /\ ~({"table_name", "columns"} \subseteq DOMAIN ds)

\* verified_datasets after the loop: a dict keyed by table_name, so of two
\* kept entries with one table_name the later one stays
CrossReference(claimed_datasets, admin_dataset_ids) ==
    LET kept == {i \in 1..Len(claimed_datasets) :
                    claimed_datasets[i].id \in admin_dataset_ids}
        last(n) == Max({i \in kept : claimed_datasets[i].table_name = n})
    IN  [n \in {claimed_datasets[i].table_name : i \in kept} |->
            [id |-> claimed_datasets[last(n)].id,
             columns |-> claimed_datasets[last(n)].columns]]

\* the verified user dict
Identity(user_id, user_context, catalog) ==
    [id |-> user_id,
     username |-> Username(user_context),
     first_name |-> Get(ClaimedUser(user_context), "first_name", ""),
     last_name |-> Get(ClaimedUser(user_context), "last_name", ""),
     datasets |-> CrossReference(Get(user_context, "datasets", <<>>), Ids(catalog))]

\* the claimed dataset list raises in the cross-reference loop
BadClaim(user_context, catalog) ==
    LET claimed_datasets == Get(user_context, "datasets", <<>>)
    IN  \E i \in 1..Len(claimed_datasets) :
            BadEntry(claimed_datasets[i], Ids(catalog))

\* verify_user_context falling back to the claim when the identity query
\* raises
verify_trusting_claim(user_context, lookup, catalog) ==
    IF ~HasUsername(user_context) THEN None
    ELSE IF lookup = "exception" /\ ~BadClaim(user_context, catalog)
         THEN Identity(0, user_context, catalog)
    ELSE IF lookup # "answered" \/ Username(user_context) \notin DOMAIN UserStore
         THEN None
    ELSE IF BadClaim(user_context, catalog) THEN None
    ELSE Identity(UserStore[Username(user_context)], user_context, catalog)

\* the value of verify_user_context(user_context), given how the identity
\* query ends and the catalog cache at that moment
verify_user_context(user_context, lookup, catalog) ==
    IF ~HasUsername(user_context) THEN None
    ELSE IF lookup = "exception" THEN None
    ELSE IF lookup = "status_error" \/ Username(user_context) \notin DOMAIN UserStore
         THEN None
    ELSE IF BadClaim(user_context, catalog) THEN None
    ELSE Identity(UserStore[Username(user_context)], user_context, catalog)

(***************************************************************************)
(* Program constants and the inputs of the model.                          *)
(***************************************************************************)
SESSION_TIMEOUT == 1800

SUPERSET_EXTERNAL_URL == "http://localhost:9088"

\* session ids the clients use
Keys == {"s1"}

\* the concurrently running /message handlers (a request takes the first
\* free one)
Slots == {1, 2}

\* message texts the clients send
Messages == { <<"n","o","w","h","e","r","e">>, <<" ","O","K","!">> }

Columns == <<"region", "amount">>

\* the datasets the analytics platform may list
Sales == [id |-> 1, table_name |-> "sales"]
Costs == [id |-> 2, table_name |-> "costs"]
Listings == { <<>>, <<Sales, Costs>> }

Claimed(id, name) == [id |-> id, table_name |-> name, columns |-> Columns]

\* the user_context values the clients send (None: no user_context)
UserContexts ==
    { None,
      [user |-> [username |-> "bob"], datasets |-> <<Claimed(1, "sales")>>],
      [user |-> [username |-> "bob"], datasets |-> <<Claimed(99, "secret")>>],
      [user |-> [username |-> "eve"], datasets |-> <<Claimed(2, "costs")>>] }

\* what the language model may answer to a proposal request
Proposals == { <<"<prose>">> }

\* what the language model may answer to the directive turn
PlanReplies ==
    { <<"{", "<one>", "}">>,
      <<Backquote, Backquote, Backquote, "j", "\n", "{", "<two>", "}", "\n",
        Backquote, Backquote, Backquote>>,
      <<"<prose>">> }

\* the messages of the exceptions the language model client raises
LLMErrors == { <<"Your ", "credit balance", " is too low">>, <<"timeout">> }

DIRECTIVE == <<"S","Y","S","T","E","M",":"," ","<directive>">>

(***************************************************************************)
(* State.                                                                  *)
(***************************************************************************)
VARIABLES
    datasets,          \* the catalog cache: table_name -> [id, columns]
    sessions,          \* session id -> reference to its session dict
    heap,              \* the session dicts that are still referenced
    handlers,          \* per slot, the /message coroutine and its locals
    refresher,         \* the refresh_datasets coroutine and its locals
    charts,            \* the platform's charts, in order of creation
    dashboards,        \* the platform's dashboards, in order of creation
    dashboard_slices,  \* the link table: {<<dashboard id, chart id>>}
    now,               \* time.time()
    load,              \* what happens in this run: how many requests the
                       \* clients keep in flight, how many they send, and
                       \* how many refreshes start
    served,            \* message requests accepted so far
    refreshes,         \* refreshes started so far
    response,          \* the response the last step returned, None if none
    call,              \* a function applied on its own: its name and arguments
    result             \* what that function returned, Unset before it returns

vars == <<datasets, sessions, heap, handlers, refresher, charts, dashboards,
          dashboard_slices, now, load, served, refreshes, response, call,
          result>>

Unset == [unset |-> TRUE]

Loads == { [inflight |-> 1, requests |-> MaxRequests, refreshes |-> MaxRefresh],
           [inflight |-> 2, requests |-> MaxOverlap, refreshes |-> MaxRefresh] }

States == {"new", "proposing", "waiting_confirm", "building", "done"}

IdleHandler ==
    [pc |-> "idle", sid |-> "", user_msg |-> <<>>, user_context |-> None,
     sess |-> 0, config |-> None, owners |-> <<>>, chart_ids |-> <<>>,
     dash_id |-> 0]

IdleRefresher == [pc |-> "idle", pending |-> <<>>, loaded |-> EmptyDict]

\* the state of the service after construction
Started ==
    /\ datasets = EmptyDict
    /\ sessions = EmptyDict
    /\ heap = EmptyDict
    /\ handlers = [i \in Slots |-> IdleHandler]
    /\ refresher = IdleRefresher
    /\ charts = <<>>
    /\ dashboards = <<>>
    /\ dashboard_slices = {}
    /\ now = 0
    /\ served = 0
    /\ refreshes = 0
    /\ response = None

Init ==
    /\ Started
    /\ load \in Loads
    /\ call = None
    /\ result = Unset

(***************************************************************************)
(* The session dicts.  A dict lives as long as sessions or a coroutine     *)
(* refers to it.                                                           *)
(***************************************************************************)
NewRef(h) == Min((1..(Cardinality(DOMAIN h) + 1)) \ DOMAIN h)

Referenced(ss, hs) ==
    {ss[k] : k \in DOMAIN ss} \cup ({hs[i].sess : i \in Slots} \ {0})

\* the next values of sessions, heap and handlers
Store(ss, h, hs) ==
    /\ sessions' = ss
    /\ handlers' = hs
    /\ heap' = [r \in Referenced(ss, hs) |-> h[r]]

\* d without key k (del d[k], d.pop(k, None))
Without(d, k) == [x \in DOMAIN d \ {k} |-> d[x]]

\* d with d[k] = v
With(d, k, v) == [x \in DOMAIN d \cup {k} |-> IF x = k THEN v ELSE d[x]]

Turn(role, content) == [role |-> role, content |-> content]

NewSession(verified_user) ==
    [history |-> <<>>, state |-> "new", proposed_config |-> None,
     dashboard_url |-> None, last_active |-> now, user |-> verified_user]

(***************************************************************************)
(* Responses.                                                              *)
(***************************************************************************)
\* a dict returned by the /message endpoint: a 200 response with that body
Reply(i, sid, body) ==
    [op |-> "message", slot |-> i, sid |-> sid, status_code |-> 200, body |-> body]

\* message(): what the except clause makes of an exception out of
\* _handle_message
ErrorBody(msg) ==
    LET shown == IF Contains(Lower(msg), <<"credit balance">>)
                 THEN <<"Insufficient API credits. Please check your LLM provider billing.">>
                 ELSE msg
    IN  [reply |-> <<"Error: ">> \o shown, state |-> "new"]

\* message(): the response to a request whose handling raised (an exception
\* that left message() would be answered with status 500 and no reply)
Unhandled(i, sid, msg) ==
    [op |-> "message", slot |-> i, sid |-> sid, status_code |-> 500,
     body |-> [detail |-> <<"Internal Server Error">>]]

\* message(): JSONResponse({"reply": ..., "state": "new"}, status_code=200)
ErrorResponse(i, sid, msg) ==
    [op |-> "message", slot |-> i, sid |-> sid, status_code |-> 200,
     body |-> ErrorBody(msg)]

SomethingWrong == <<"Something went wrong. Please refresh and try again.">>

BuildFailedReply(exc) ==
    <<"Sorry, the build failed (", exc, "). Could you rephrase your request?">>

Digits == <<"0", "1", "2", "3", "4", "5", "6", "7", "8", "9">>

\* str(n) for n >= 0
RECURSIVE Str(_)
Str(n) == IF n < 10 THEN <<Digits[n + 1]>>
          ELSE Str(n \div 10) \o <<Digits[(n % 10) + 1]>>

DashboardUrl(dash_id) ==
    <<SUPERSET_EXTERNAL_URL, "/superset/dashboard/">> \o Str(dash_id) \o <<"/">>

\* the reply with the plural for every count
DoneReplyPlural(n, url) ==
    <<"Done! I created ">> \o Str(n) \o <<" chart", "s">>
        \o <<" in your dashboard: ">> \o url

DoneReply(n, url) ==
    <<"Done! I created ">> \o Str(n) \o <<" chart">>
        \o (IF n > 1 THEN <<"s">> ELSE <<>>)
        \o <<" in your dashboard: ">> \o url

(***************************************************************************)
(* _handle_message, from one await to the next.                            *)
(***************************************************************************)
\* a dispatch whose done branch keeps the turns of the finished conversation
DispatchKeepsHistory(s, user_msg) ==
    LET s1 == [s EXCEPT !.history = Append(@, Turn("user", user_msg))]
    IN  CASE s1.state \in {"new", "proposing"} ->
               [sess |-> s1, pc |-> "propose", body |-> None]
          [] s1.state = "waiting_confirm" /\ _is_yes(user_msg) ->
               [sess |-> [s1 EXCEPT !.history = Append(@, Turn("user", DIRECTIVE)),
                                    !.state = "building"],
                pc |-> "plan", body |-> None]
          [] s1.state = "waiting_confirm" /\ ~_is_yes(user_msg) ->
               [sess |-> s1, pc |-> "continue", body |-> None]
          [] s1.state = "done" ->
               [sess |-> [s1 EXCEPT !.state = "proposing"],
                pc |-> "restart", body |-> None]
          [] OTHER ->
               [sess |-> s1, pc |-> "idle",
                body |-> [reply |-> SomethingWrong, state |-> "new"]]

\* lines 267-328 up to the first await or return: the session dict after
\* them, where the coroutine waits next, and the body returned if it returns
Dispatch(s, user_msg) ==
    LET s1 == [s EXCEPT !.history = Append(@, Turn("user", user_msg))]
    IN  CASE s1.state \in {"new", "proposing"} ->
               [sess |-> s1, pc |-> "propose", body |-> None]
          [] s1.state = "waiting_confirm" /\ _is_yes(user_msg) ->
               [sess |-> [s1 EXCEPT !.history = Append(@, Turn("user", DIRECTIVE)),
                                    !.state = "building"],
                pc |-> "plan", body |-> None]
          [] s1.state = "waiting_confirm" /\ ~_is_yes(user_msg) ->
               [sess |-> s1, pc |-> "continue", body |-> None]
          [] s1.state = "done" ->
               [sess |-> [s1 EXCEPT !.history = <<Turn("user", user_msg)>>,
                                    !.state = "proposing"],
                pc |-> "restart", body |-> None]
          [] OTHER ->
               [sess |-> s1, pc |-> "idle",
                body |-> [reply |-> SomethingWrong, state |-> "new"]]

\* handler i, with locals r, goes on from line 267 (user_msg and
\* user_context are not read after the dispatch)
Answer(i, r, ss, h, ref) ==
    LET d == Dispatch(h[ref], r.user_msg)
        h1 == [h EXCEPT ![ref] = d.sess]
    IN  IF d.pc = "idle"
        THEN /\ Store(ss, h1, [handlers EXCEPT ![i] = IdleHandler])
             /\ response' = Reply(i, r.sid, d.body)
        ELSE /\ Store(ss, h1, [handlers EXCEPT ![i] =
                                  [r EXCEPT !.pc = d.pc, !.sess = ref,
                                            !.user_msg = <<>>,
                                            !.user_context = None]])
             /\ response' = None

\* handler i, with locals r, goes on from line 257
Enter(i, r, ss, h, ref) ==
    LET h1 == [h EXCEPT ![ref].last_active = now]
    IN  IF h1[ref].user = None /\ HasUsername(r.user_context)
        THEN /\ Store(ss, h1, [handlers EXCEPT ![i] =
                                  [r EXCEPT !.pc = "verify_late", !.sess = ref]])
             /\ response' = None
        ELSE Answer(i, r, ss, h1, ref)

\* sessions[sid] = {...} with a new dict
Create(i, r, verified_user) ==
    LET ref == NewRef(heap)
    IN  Enter(i, r, With(sessions, r.sid, ref),
              With(heap, ref, NewSession(verified_user)), ref)

Platform == <<charts, dashboards, dashboard_slices>>

\* POST /message arrives and runs to its first await
Receive(i, sid, text, user_context) ==
    LET r == [IdleHandler EXCEPT !.sid = sid, !.user_msg = Strip(text),
                                 !.user_context = user_context]
    IN  /\ handlers[i].pc = "idle"
        /\ \A j \in Slots : handlers[j].pc = "idle" => i <= j
        /\ Cardinality({j \in Slots : handlers[j].pc # "idle"}) < load.inflight
        /\ served < load.requests
        /\ served' = served + 1
        /\ IF sid \notin DOMAIN sessions
           THEN IF HasUsername(user_context)
                THEN /\ Store(sessions, heap,
                              [handlers EXCEPT ![i] = [r EXCEPT !.pc = "verify_new"]])
                     /\ response' = None
                ELSE Create(i, r, None)
           ELSE Enter(i, r, sessions, heap, sessions[sid])
        /\ UNCHANGED <<datasets, refresher, Platform, now, load, refreshes, call, result>>

\* line 246: verify_user_context returns, the session is created
VerifyNew(i, lookup) ==
    /\ handlers[i].pc = "verify_new"
    /\ Create(i, handlers[i],
              verify_user_context(handlers[i].user_context, lookup, datasets))
    /\ UNCHANGED <<datasets, refresher, Platform, now, load, served, refreshes, call, result>>

\* line 262: verify_user_context returns for a session without a user
VerifyLate(i, lookup) ==
    LET r == handlers[i]
        verified_user == verify_user_context(r.user_context, lookup, datasets)
        h == IF verified_user # None
             THEN [heap EXCEPT ![r.sess].user = verified_user]
             ELSE heap
    IN  /\ r.pc = "verify_late"
        /\ Answer(i, r, sessions, h, r.sess)
        /\ UNCHANGED <<datasets, refresher, Platform, now, load, served, refreshes, call, result>>

\* handler i returns body
Finish(i, h, body) ==
    /\ Store(sessions, h, [handlers EXCEPT ![i] = IdleHandler])
    /\ response' = Reply(i, handlers[i].sid, body)

\* the session dict with the model's reply appended
Replied(s, reply) == [s EXCEPT !.history = Append(@, Turn("assistant", reply))]

\* a proposal step that appends the reply and leaves the state as it is
ProposeKeepsState(i, reply) ==
    LET r == handlers[i]
    IN  /\ r.pc = "propose"
        /\ Finish(i, [heap EXCEPT ![r.sess] = Replied(@, reply)],
                  [reply |-> reply, state |-> "waiting_confirm"])
        /\ UNCHANGED <<datasets, refresher, Platform, now, load, served, refreshes, call, result>>

\* lines 272-275: the proposal arrives
Propose(i, reply) ==
    LET r == handlers[i]
        s == [Replied(heap[r.sess], reply) EXCEPT !.state = "waiting_confirm"]
    IN  /\ r.pc = "propose"
        /\ Finish(i, [heap EXCEPT ![r.sess] = s],
                  [reply |-> reply, state |-> "waiting_confirm"])
        /\ UNCHANGED <<datasets, refresher, Platform, now, load, served, refreshes, call, result>>

\* lines 315-317: the answer to a message that is no confirmation arrives
Continue(i, reply) ==
    LET r == handlers[i]
    IN  /\ r.pc = "continue"
        /\ Finish(i, [heap EXCEPT ![r.sess] = Replied(@, reply)],
                  [reply |-> reply, state |-> "waiting_confirm"])
        /\ UNCHANGED <<datasets, refresher, Platform, now, load, served, refreshes, call, result>>

\* lines 323-326: the proposal that restarts a finished conversation arrives
Restart(i, reply) ==
    LET r == handlers[i]
        s == [Replied(heap[r.sess], reply) EXCEPT !.state = "waiting_confirm"]
    IN  /\ r.pc = "restart"
        /\ Finish(i, [heap EXCEPT ![r.sess] = s],
                  [reply |-> reply, state |-> "waiting_confirm"])
        /\ UNCHANGED <<datasets, refresher, Platform, now, load, served, refreshes, call, result>>

\* _claude raises at line 272, 292, 315 or 323: no handler in
\* _handle_message covers these lines, message() answers
ClaudeRaises(i, msg) ==
    /\ handlers[i].pc \in {"propose", "plan", "continue", "restart"}
    /\ Store(sessions, heap, [handlers EXCEPT ![i] = IdleHandler])
    /\ response' = ErrorResponse(i, handlers[i].sid, msg)
    /\ UNCHANGED <<datasets, refresher, Platform, now, load, served, refreshes, call, result>>

\* lines 295-298: the plan of the reply, or the exception raised on the way
Plan(json_reply, user, catalog) ==
    LET parsed == _parse_json(json_reply)
        config == _normalize_config(parsed.value)
        user_ds == IF user # None THEN user.datasets ELSE None
        valid == _validate_config(config.value, user_ds, catalog)
    IN  IF parsed.raised THEN parsed
        ELSE IF config.raised THEN config
        ELSE IF valid.raised THEN valid
        ELSE config

\* the except clause leaving a state of its own behind
BuildFailedState(i, h, exc) ==
    Finish(i, [h EXCEPT ![handlers[i].sess].state = "failed"],
           [reply |-> BuildFailedReply(exc), state |-> "failed"])

\* the exception that leaves _build_dashboard when the step at pc fails:
\* what raise_for_status raises (lines 59, 63, 545, 560), or the database
\* driver (lines 566-576); its fields are its class and its str()
BuilderError(pc) ==
    [type |-> IF pc = "build_link" THEN "psycopg2.Error" ELSE "HTTPStatusError",
     message |-> CASE pc = "build_login" -> "login failed"
                   [] pc = "build_chart" -> "chart failed"
                   [] pc = "build_dashboard" -> "dashboard failed"
                   [] pc = "build_link" -> "link failed"]

\* lines 309-313: the build failed
BuildFailed(i, h, exc) ==
    Finish(i, [h EXCEPT ![handlers[i].sess].state = "waiting_confirm"],
           [reply |-> BuildFailedReply(exc), state |-> "waiting_confirm"])

\* lines 299 and 527: owner_id, and owners = [user_id] if user_id else []
Owners(user) == IF user # None /\ user.id # 0 THEN <<user.id>> ELSE <<>>

\* lines 293-300: the structured reply arrives; the plan is extracted and
\* validated, and _build_dashboard runs to its first await
PlanArrives(i, json_reply) ==
    LET r == handlers[i]
        h == [heap EXCEPT ![r.sess] = Replied(@, json_reply)]
        plan == Plan(json_reply, heap[r.sess].user, datasets)
    IN  /\ r.pc = "plan"
        /\ IF plan.raised
           THEN BuildFailed(i, h, plan.error)
           ELSE /\ Store(sessions, h, [handlers EXCEPT ![i] =
                                         [r EXCEPT !.pc = "build_login",
                                                   !.config = plan.value,
                                                   !.owners = Owners(heap[r.sess].user)]])
                /\ response' = None
        /\ UNCHANGED <<datasets, refresher, Platform, now, load, served, refreshes, call, result>>

\* line 525: superset_session() returns or raises
BuildLogin(i, ok) ==
    LET r == handlers[i]
    IN  /\ r.pc = "build_login"
        /\ IF ok
           THEN /\ Store(sessions, heap,
                         [handlers EXCEPT ![i] = [r EXCEPT !.pc = "build_chart"]])
                /\ response' = None
           ELSE BuildFailed(i, heap, BuilderError("build_login").message)
        /\ UNCHANGED <<datasets, refresher, Platform, now, load, served, refreshes, call, result>>

\* a chart step whose failing POST leaves a chart behind all the same
BuildChartLate(i, ok) ==
    LET r == handlers[i]
        c == r.config.charts[Len(r.chart_ids) + 1]
        id == Len(charts) + 1
        ids == Append(r.chart_ids, id)
    IN  /\ r.pc = "build_chart"
        /\ charts' = Append(charts,
                        [slice_name |-> c.chart_title, datasource_id |-> c.dataset_id,
                         owners |-> r.owners])
        /\ IF ok
           THEN /\ Store(sessions, heap,
                         [handlers EXCEPT ![i] =
                             [r EXCEPT !.chart_ids = ids,
                                       !.pc = IF Len(ids) = Len(r.config.charts)
                                              THEN "build_dashboard"
                                              ELSE "build_chart"]])
                /\ response' = None
           ELSE BuildFailed(i, heap, BuilderError("build_chart").message)
        /\ UNCHANGED <<datasets, refresher, dashboards, dashboard_slices, now,
                       load, served, refreshes, call, result>>

\* lines 543-547: the platform answers the POST of the next chart
BuildChart(i, ok) ==
    LET r == handlers[i]
        c == r.config.charts[Len(r.chart_ids) + 1]
        id == Len(charts) + 1
        ids == Append(r.chart_ids, id)
    IN  /\ r.pc = "build_chart"
        /\ IF ok
           THEN /\ charts' = Append(charts,
                        [slice_name |-> c.chart_title, datasource_id |-> c.dataset_id,
                         owners |-> r.owners])
                /\ Store(sessions, heap,
                         [handlers EXCEPT ![i] =
                             [r EXCEPT !.chart_ids = ids,
                                       !.pc = IF Len(ids) = Len(r.config.charts)
                                              THEN "build_dashboard"
                                              ELSE "build_chart"]])
                /\ response' = None
           ELSE /\ BuildFailed(i, heap, BuilderError("build_chart").message)
                /\ UNCHANGED charts
        /\ UNCHANGED <<datasets, refresher, dashboards, dashboard_slices, now,
                       load, served, refreshes, call, result>>

(***************************************************************************)
(* _build_position_json: the layout document, a dict keyed by element id.  *)
(***************************************************************************)
\* a loop that gives every chart a row of its own
LayoutOnePerRow(i, n) == [k \in 1..(n - i) |-> <<i + k>>]

\* the while loop: the rows, each the (1-based) numbers of its charts
RECURSIVE LayoutRows(_, _)
LayoutRows(i, n) ==
    IF i >= n THEN <<>>
    ELSE IF i + 1 < n
         THEN << <<i + 1, i + 2>> >> \o LayoutRows(i + 2, n)
         ELSE << <<i + 1>> >> \o LayoutRows(i + 1, n)

RowKey(k) == <<"ROW-">> \o Str(k)
ChartKey(k) == <<"CHART-">> \o Str(k)

_build_position_json(chart_ids, chart_titles) ==
    LET n == Len(chart_ids)
        rows == LayoutRows(0, n)
        row_ids == [k \in 1..Len(rows) |-> RowKey(k)]
        rowOf(c) == CHOOSE k \in 1..Len(rows) : \E j \in 1..Len(rows[k]) : rows[k][j] = c
        keys == {<<"DASHBOARD_VERSION_KEY">>, <<"ROOT_ID">>, <<"GRID_ID">>}
                    \cup {RowKey(k) : k \in 1..Len(rows)}
                    \cup {ChartKey(c) : c \in 1..n}
        entry(key) ==
            IF key = <<"DASHBOARD_VERSION_KEY">> THEN [version |-> "v2"]
            ELSE IF key = <<"ROOT_ID">>
                 THEN [children |-> << <<"GRID_ID">> >>, id |-> key, type |-> "ROOT"]
            ELSE IF key = <<"GRID_ID">>
                 THEN [children |-> row_ids, id |-> key, type |-> "GRID",
                       parents |-> << <<"ROOT_ID">> >>]
            ELSE IF \E k \in 1..Len(rows) : key = RowKey(k)
                 THEN LET k == CHOOSE k \in 1..Len(rows) : key = RowKey(k)
                      IN  [children |-> [j \in 1..Len(rows[k]) |-> ChartKey(rows[k][j])],
                           id |-> key, type |-> "ROW",
                           parents |-> << <<"ROOT_ID">>, <<"GRID_ID">> >>]
            ELSE LET c == CHOOSE c \in 1..n : key = ChartKey(c)
                 IN  [children |-> <<>>, id |-> key, type |-> "CHART",
                      meta |-> [chartId |-> chart_ids[c], height |-> 50,
                                sliceName |-> chart_titles[c],
                                width |-> IF Len(rows[rowOf(c)]) = 2 THEN 6 ELSE 12],
                      parents |-> << <<"ROOT_ID">>, <<"GRID_ID">>, RowKey(rowOf(c)) >>]
    IN  [key \in keys |-> entry(key)]

\* lines 558-561: the platform answers the POST of the dashboard
BuildDashboard(i, ok) ==
    LET r == handlers[i]
        chart_titles == [k \in 1..Len(r.chart_ids) |-> r.config.charts[k].chart_title]
        id == Len(dashboards) + 1
    IN  /\ r.pc = "build_dashboard"
        /\ IF ok
           THEN /\ dashboards' = Append(dashboards,
                        [dashboard_title |-> r.config.dashboard_title,
                         published |-> TRUE,
                         position_json |-> _build_position_json(r.chart_ids, chart_titles),
                         owners |-> r.owners])
                /\ Store(sessions, heap,
                         [handlers EXCEPT ![i] = [r EXCEPT !.dash_id = id,
                                                           !.pc = "build_link"]])
                /\ response' = None
           ELSE /\ BuildFailed(i, heap, BuilderError("build_dashboard").message)
                /\ UNCHANGED dashboards
        /\ UNCHANGED <<datasets, refresher, charts, dashboard_slices, now,
                       load, served, refreshes, call, result>>

\* a link step that reports success whatever was linked
BuildLinkLenient(i, linked) ==
    LET r == handlers[i]
        n == Len(r.config.charts)
        url == DashboardUrl(r.dash_id)
    IN  /\ r.pc = "build_link"
        /\ linked \in 0..Len(r.chart_ids)
        /\ dashboard_slices' = dashboard_slices \cup
               {<<r.dash_id, r.chart_ids[k]>> : k \in 1..linked}
        /\ Finish(i, [heap EXCEPT ![r.sess].state = "done",
                                  ![r.sess].dashboard_url = Just(url)],
                  [reply |-> DoneReply(n, url), state |-> "done",
                   dashboard_url |-> url])
        /\ UNCHANGED <<datasets, refresher, charts, dashboards, now, load,
                       served, refreshes, call, result>>

\* lines 563-578 and 301-308: client.aclose() returns; the first `linked`
\* chart ids are inserted into the link table (every insert is committed),
\* and with all of them linked the URL is returned and the session is done
BuildLink(i, linked) ==
    LET r == handlers[i]
        n == Len(r.config.charts)
        url == DashboardUrl(r.dash_id)
    IN  /\ r.pc = "build_link"
        /\ linked \in 0..Len(r.chart_ids)
        /\ dashboard_slices' = dashboard_slices \cup
               {<<r.dash_id, r.chart_ids[k]>> : k \in 1..linked}
        /\ IF linked = Len(r.chart_ids)
           THEN Finish(i, [heap EXCEPT ![r.sess].state = "done",
                                       ![r.sess].dashboard_url = Just(url)],
                       [reply |-> DoneReply(n, url), state |-> "done",
                        dashboard_url |-> url])
           ELSE BuildFailed(i, heap, BuilderError("build_link").message)
        /\ UNCHANGED <<datasets, refresher, charts, dashboards, now, load,
                       served, refreshes, call, result>>

(***************************************************************************)
(* The other endpoints.                                                    *)
(***************************************************************************)
Expired(s) == now - s.last_active > SESSION_TIMEOUT

\* the turns history() shows
Shown(hist) ==
    SelectSeq(hist, LAMBDA m : ~StartsWith(m.content, <<"S","Y","S","T","E","M",":">>))

\* GET /history/{session_id}
History(sid) ==
    /\ IF sid \notin DOMAIN sessions
       THEN /\ response' = [op |-> "history", sid |-> sid, messages |-> <<>>]
            /\ UNCHANGED <<sessions, heap, handlers>>
       ELSE IF Expired(heap[sessions[sid]])
       THEN /\ response' = [op |-> "history", sid |-> sid, messages |-> <<>>]
            /\ Store(Without(sessions, sid), heap, handlers)
       ELSE /\ response' = [op |-> "history", sid |-> sid,
                            messages |-> Shown(heap[sessions[sid]].history)]
            /\ UNCHANGED <<sessions, heap, handlers>>
    /\ UNCHANGED <<datasets, refresher, Platform, now, load, served, refreshes, call, result>>

\* a reset that clears every session
ResetAll(sid) ==
    /\ response' = [op |-> "reset", sid |-> sid, status |-> "ok"]
    /\ Store(EmptyDict, heap, handlers)
    /\ UNCHANGED <<datasets, refresher, Platform, now, load, served, refreshes, call, result>>

\* a reset that spares a session that is building
ResetUnlessBuilding(sid) ==
    /\ response' = [op |-> "reset", sid |-> sid, status |-> "ok"]
    /\ IF sid \in DOMAIN sessions /\ heap[sessions[sid]].state = "building"
       THEN Store(sessions, heap, handlers)
       ELSE Store(Without(sessions, sid), heap, handlers)
    /\ UNCHANGED <<datasets, refresher, Platform, now, load, served, refreshes, call, result>>

\* POST /reset/{session_id}
Reset(sid) ==
    /\ response' = [op |-> "reset", sid |-> sid, status |-> "ok"]
    /\ Store(Without(sessions, sid), heap, handlers)
    /\ UNCHANGED <<datasets, refresher, Platform, now, load, served, refreshes, call, result>>

(***************************************************************************)
(* refresh_datasets, from one await to the next.                           *)
(***************************************************************************)
Background == <<sessions, heap, handlers, Platform, now, load, served, call, result>>

\* a refresh starts (at startup, and every 30 seconds) and logs in
RefreshStart ==
    /\ refresher.pc = "idle"
    /\ refreshes < load.refreshes
    /\ refreshes' = refreshes + 1
    /\ refresher' = [IdleRefresher EXCEPT !.pc = "list"]
    /\ response' = None
    /\ UNCHANGED <<datasets, Background>>

\* lines 76-79: the login or the listing fails
RefreshFails ==
    /\ refresher.pc \in {"list", "fetch"}
    /\ refresher' = IdleRefresher
    /\ response' = None
    /\ UNCHANGED <<datasets, refreshes, Background>>

\* lines 77-81: the platform lists its datasets
RefreshList(listing) ==
    /\ refresher.pc = "list"
    /\ refresher' = [pc |-> IF listing = <<>> THEN "close" ELSE "fetch",
                     pending |-> listing, loaded |-> EmptyDict]
    /\ response' = None
    /\ UNCHANGED <<datasets, refreshes, Background>>

\* a fetch that writes each dataset into the cache as it arrives
RefreshFetchPatching(found) ==
    LET ds == Head(refresher.pending)
        rest == Tail(refresher.pending)
    IN  /\ refresher.pc = "fetch"
        /\ refresher' = [pc |-> IF rest = <<>> THEN "close" ELSE "fetch",
                         pending |-> rest, loaded |-> refresher.loaded]
        /\ datasets' = IF found
                       THEN With(datasets, ds.table_name,
                                 [id |-> ds.id, columns |-> Columns])
                       ELSE datasets
        /\ response' = None
        /\ UNCHANGED <<refreshes, Background>>

\* lines 82-86: the platform answers the GET of the next dataset
RefreshFetch(found) ==
    LET ds == Head(refresher.pending)
        rest == Tail(refresher.pending)
    IN  /\ refresher.pc = "fetch"
        /\ refresher' =
              [pc |-> IF rest = <<>> THEN "close" ELSE "fetch",
               pending |-> rest,
               loaded |-> IF found
                          THEN With(refresher.loaded, ds.table_name,
                                    [id |-> ds.id, columns |-> Columns])
                          ELSE refresher.loaded]
        /\ response' = None
        /\ UNCHANGED <<datasets, refreshes, Background>>

\* lines 87-90: client.aclose() returns; a non-empty result replaces the cache
RefreshClose ==
    /\ refresher.pc = "close"
    /\ datasets' = IF refresher.loaded # EmptyDict THEN refresher.loaded ELSE datasets
    /\ refresher' = IdleRefresher
    /\ response' = None
    /\ UNCHANGED <<refreshes, Background>>

\* time passes.  The clock moves in steps longer than SESSION_TIMEOUT, which
\* no outbound call outlasts (line 53: timeout=30), so no coroutine is
\* suspended across a step
Tick ==
    /\ \A i \in Slots : handlers[i].pc = "idle"
    /\ refresher.pc = "idle"
    /\ now + TickStep <= MaxTime
    /\ now' = now + TickStep
    /\ response' = None
    /\ UNCHANGED <<datasets, sessions, heap, handlers, refresher, Platform,
                   load, served, refreshes, call, result>>

Next ==
    \/ \E i \in Slots, sid \in Keys, text \in Messages, uc \in UserContexts :
          Receive(i, sid, text, uc)
    \/ \E i \in Slots, lookup \in Lookups : VerifyNew(i, lookup)
    \/ \E i \in Slots, lookup \in Lookups : VerifyLate(i, lookup)
    \/ \E i \in Slots, reply \in Proposals : Propose(i, reply)
    \/ \E i \in Slots, reply \in Proposals : Continue(i, reply)
    \/ \E i \in Slots, reply \in Proposals : Restart(i, reply)
    \/ \E i \in Slots, msg \in LLMErrors : ClaudeRaises(i, msg)
    \/ \E i \in Slots, json_reply \in PlanReplies : PlanArrives(i, json_reply)
    \/ \E i \in Slots, ok \in BOOLEAN : BuildLogin(i, ok)
    \/ \E i \in Slots, ok \in BOOLEAN : BuildChart(i, ok)
    \/ \E i \in Slots, ok \in BOOLEAN : BuildDashboard(i, ok)
    \/ \E i \in Slots, linked \in 0..2 : BuildLink(i, linked)
    \/ \E sid \in Keys : History(sid)
    \/ \E sid \in Keys : Reset(sid)
    \/ RefreshStart
    \/ RefreshFails
    \/ \E listing \in Listings : RefreshList(listing)
    \/ \E found \in BOOLEAN : RefreshFetch(found)
    \/ RefreshClose
    \/ Tick

Spec == Init /\ [][Next]_vars

(***************************************************************************)
(* The service with two session keys: clients that keep two requests in    *)
(* flight, type a text that begins like a directive, and confirm.          *)
(***************************************************************************)
TwoKeys == {"s1", "s2"}

Typed == { <<"S","Y","S","T","E","M",":"," ","h","i">>, <<"o","k">> }

PairContexts ==
    { None, [user |-> [username |-> "bob"], datasets |-> <<Claimed(1, "sales")>>] }

PairInit ==
    /\ Started
    /\ load = [inflight |-> 2, requests |-> MaxPair]
    /\ call = None
    /\ result = Unset

PairNext ==
    \/ \E i \in Slots, sid \in TwoKeys, text \in Typed, uc \in PairContexts :
          Receive(i, sid, text, uc)
    \/ \E i \in Slots, lookup \in Lookups : VerifyNew(i, lookup)
    \/ \E i \in Slots, lookup \in Lookups : VerifyLate(i, lookup)
    \/ \E i \in Slots, reply \in Proposals : Propose(i, reply)
    \/ \E i \in Slots, reply \in Proposals : Continue(i, reply)
    \/ \E i \in Slots : ClaudeRaises(i, <<"timeout">>)
    \/ \E i \in Slots : PlanArrives(i, <<"{", "<one>", "}">>)
    \/ \E sid \in TwoKeys : History(sid)
    \/ \E sid \in TwoKeys : Reset(sid)
    \/ Tick

PairSpec == PairInit /\ [][PairNext]_vars

(***************************************************************************)
(* The catalog refreshed several times while a first message with a        *)
(* user_context is verified against it.                                    *)
(***************************************************************************)
RepeatInit ==
    /\ Started
    /\ load = [inflight |-> 1, requests |-> 1, refreshes |-> MaxRepeat]
    /\ call = None
    /\ result = Unset

RepeatNext ==
    \/ \E uc \in UserContexts \ {None} : Receive(1, "s1", <<"o", "k">>, uc)
    \/ \E lookup \in Lookups : VerifyNew(1, lookup)
    \/ RefreshStart
    \/ RefreshFails
    \/ \E listing \in Listings \cup { <<Costs>> } : RefreshList(listing)
    \/ \E found \in BOOLEAN : RefreshFetch(found)
    \/ RefreshClose

RepeatSpec == RepeatInit /\ [][RepeatNext]_vars

(***************************************************************************)
(* One session key whose clients keep two messages in flight, confirm      *)
(* again and again, read the history and reset, while every call of the    *)
(* builder succeeds.                                                       *)
(***************************************************************************)
RaceInit ==
    /\ Started
    /\ load = [inflight |-> 2, requests |-> MaxRace, refreshes |-> MaxRefresh]
    /\ call = None
    /\ result = Unset

RaceNext ==
    \/ \E i \in Slots : Receive(i, "s1", <<"o", "k">>, None)
    \/ \E i \in Slots, reply \in Proposals : Propose(i, reply)
    \/ \E i \in Slots : PlanArrives(i, <<"{", "<one>", "}">>)
    \/ \E i \in Slots : BuildLogin(i, TRUE)
    \/ \E i \in Slots : BuildChart(i, TRUE)
    \/ \E i \in Slots : BuildDashboard(i, TRUE)
    \/ \E i \in Slots : BuildLink(i, Len(handlers[i].chart_ids))
    \/ History("s1")
    \/ Reset("s1")
    \/ RefreshStart
    \/ RefreshList(<<Sales>>)
    \/ RefreshFetch(TRUE)
    \/ RefreshClose

RaceSpec == RaceInit /\ [][RaceNext]_vars

(***************************************************************************)
(* The plan functions applied on their own: _validate_config,              *)
(* _normalize_config, _build_position_json, and lines 295-300 of           *)
(* _handle_message (a reply is extracted, normalized and validated, and    *)
(* what is not rejected is handed to _build_dashboard).                    *)
(***************************************************************************)
\* the charts a plan may hold: authorized, unknown dataset, incomplete
PlanCharts ==
    { ChartSpec(1, "c1"), ChartSpec(42, "c2"),
      [dataset_id |-> 1, chart_title |-> "c3"],
      [dataset_id |-> 42, chart_title |-> "c4"],
      [metric_column |-> "amount", dimension_column |-> "region",
       chart_type |-> "bar", chart_title |-> "c5"] }

PlanChartLists == UNION { [1..n -> PlanCharts] : n \in 0..MaxPlanCharts }

\* plans with a charts key, with and without a title
ChartPlans ==
    [dashboard_title : {"Sales"}, charts : PlanChartLists]
        \cup [charts : PlanChartLists]

\* plans without a charts key: the legacy shape with and without a title
\* and with a key the conversion does not know, and shapes it cannot convert
LegacyPlans ==
    { ChartSpec(2, "c2"),
      [dataset_id |-> 1, metric_column |-> "amount", dimension_column |-> "region",
       chart_type |-> "pie", chart_title |-> "c1", dashboard_title |-> "Costs"],
      [dataset_id |-> 1, metric_column |-> "amount", dimension_column |-> "region",
       chart_type |-> "bar", chart_title |-> "c1", dashboard_title |-> "Costs",
       row_limit |-> 10],
      [dataset_id |-> 1, chart_title |-> "c1"],
      [dashboard_title |-> "Sales"] }

\* the datasets mapping of a verified identity, None without identity
UserDatasets ==
    { None, EmptyDict, [n \in {"sales"} |-> [id |-> 1, columns |-> Columns]] }

PlanCatalogs ==
    { EmptyDict,
      [n \in {"sales", "costs"} |->
          [id |-> IF n = "sales" THEN 1 ELSE 2, columns |-> Columns]] }

\* replies of the language model to the directive turn
JsonReplies == { <<"{", b, "}">> : b \in JsonBodies } \cup { <<"<prose>">> }

\* chart ids and titles as _build_dashboard collects them
ChartIdLists == UNION { [1..n -> {7, 8}] : n \in 1..MaxCharts }
Titles == <<"a", "b", "c", "d", "e", "f">>

PureCalls ==
    [fn : {"_validate_config"}, config : ChartPlans \cup {[dashboard_title |-> "Sales"]},
     user_datasets : UserDatasets, catalog : PlanCatalogs]
    \cup [fn : {"_normalize_config"}, config : ChartPlans \cup LegacyPlans]
    \cup [fn : {"plan"}, json_reply : JsonReplies,
          user_datasets : UserDatasets, catalog : PlanCatalogs]
    \cup { [fn |-> "_build_position_json", chart_ids |-> ids,
            chart_titles |-> SubSeq(Titles, 1, Len(ids))] : ids \in ChartIdLists }

PureInit ==
    /\ Started
    /\ load = [inflight |-> 0, requests |-> 0]
    /\ call \in PureCalls
    /\ result = Unset

Untouched == <<datasets, sessions, heap, handlers, refresher, Platform, now,
               load, served, refreshes, response, call>>

ValidateReturns ==
    /\ call.fn = "_validate_config"
    /\ result = Unset
    /\ result' = _validate_config(call.config, call.user_datasets, call.catalog)
    /\ UNCHANGED Untouched

NormalizeReturns ==
    /\ call.fn = "_normalize_config"
    /\ result = Unset
    /\ result' = _normalize_config(call.config)
    /\ UNCHANGED Untouched

\* lines 295-300: the reply is rejected, or its plan goes to _build_dashboard
PlanReturns ==
    /\ call.fn = "plan"
    /\ result = Unset
    /\ result' = Plan(call.json_reply,
                      IF call.user_datasets = None THEN None
                      ELSE [id |-> 7, datasets |-> call.user_datasets],
                      call.catalog)
    /\ UNCHANGED Untouched

LayoutReturns ==
    /\ call.fn = "_build_position_json"
    /\ result = Unset
    /\ result' = Return(_build_position_json(call.chart_ids, call.chart_titles))
    /\ UNCHANGED Untouched

PureNext == ValidateReturns \/ NormalizeReturns \/ PlanReturns \/ LayoutReturns

PureSpec == PureInit /\ [][PureNext]_vars

(***************************************************************************)
(* verify_user_context applied on its own.                                 *)
(***************************************************************************)
ClaimEntries ==
    [id : {1, 2, 99}, table_name : {"sales", "costs"},
     columns : {Columns, <<"salary">>}]
        \cup { [table_name |-> "sales", columns |-> Columns] }

ClaimLists == UNION { [1..n -> ClaimEntries] : n \in 0..MaxClaimed }

ClaimUsers == { [username |-> "bob"], [username |-> "eve"], [username |-> ""],
                [first_name |-> "Bob"] }

ClaimContexts ==
    {None} \cup [datasets : ClaimLists] \cup [user : ClaimUsers, datasets : ClaimLists]

Catalogs ==
    { EmptyDict,
      [n \in {"sales"} |-> [id |-> 1, columns |-> Columns]],
      [n \in {"costs"} |-> [id |-> 2, columns |-> Columns]],
      [n \in {"sales", "costs"} |->
          [id |-> IF n = "sales" THEN 1 ELSE 2, columns |-> Columns]] }

VerifyInit ==
    /\ Started
    /\ load = [inflight |-> 0, requests |-> 0]
    /\ call \in [fn : {"verify_user_context"}, user_context : ClaimContexts,
                 lookup : Lookups, catalog : Catalogs]
    /\ result = Unset

VerifyReturns ==
    /\ call.fn = "verify_user_context"
    /\ result = Unset
    /\ result' = verify_user_context(call.user_context, call.lookup, call.catalog)
    /\ UNCHANGED <<datasets, sessions, heap, handlers, refresher, Platform, now,
                   load, served, refreshes, response, call>>

VerifyNext == VerifyReturns

VerifySpec == VerifyInit /\ [][VerifyNext]_vars

(***************************************************************************)
(* Claims.                                                                 *)
(***************************************************************************)
Verified == call # None /\ result # Unset /\ result # None

\* C3: the datasets of the identity verify_user_context returns are exactly
\* the claimed datasets whose id the catalog knows at verification time:
\* every claimed id the catalog knows is included, and no claimed id the
\* catalog does not know is, whatever name or columns the claim gives it
C3_ExactlyTheKnownClaims ==
    Verified =>
        Ids(result.datasets) =
            { call.user_context.datasets[i].id :
                i \in 1..Len(call.user_context.datasets) } \cap Ids(call.catalog)

\* the claim names no user: no context, no user, or no (or an empty) username
NamesNoUser(user_context) ==
    \/ user_context = None
    \/ "user" \notin DOMAIN user_context
    \/ "username" \notin DOMAIN user_context.user
    \/ user_context.user.username = ""

\* C4: verify_user_context fails closed: it returns None when the claim has
\* no username, when the identity store has no user of that name, and when
\* the identity query fails or raises
C4_FailsClosed ==
    (call # None /\ result # Unset) =>
        ( ( \/ NamesNoUser(call.user_context)
            \/ call.user_context.user.username \notin {"bob"}
            \/ call.lookup \in {"status_error", "exception"} )
          => result = None )

\* C4 witness: the query raised for a user the store has, whose claim names
\* a dataset the catalog knows, and None was returned
C4_Witness ==
    /\ call # None
    /\ call.lookup = "exception"
    /\ call.user_context = [user |-> [username |-> "bob"],
                            datasets |-> <<Claimed(1, "sales")>>]
    /\ "sales" \in DOMAIN call.catalog
    /\ result = None

BuildPcs == {"build_login", "build_chart", "build_dashboard", "build_link"}

\* the session dict handler i works on
SessOf(i) == heap[handlers[i].sess]

\* the ids a caller with this verified identity is authorized for
Authorized(user, catalog) ==
    IF user # None THEN Ids(user.datasets) ELSE Ids(catalog)

\* handler i calls _build_dashboard in this step
InvokesBuilder(i) == handlers[i].pc = "plan" /\ handlers'[i].pc = "build_login"

\* C1: whenever the Dashboard Builder is invoked for a session, every chart
\* of the plan has a dataset_id of the caller's authorized set at validation
\* time: the verified identity's scoped ids when the session has a verified
\* identity, the admin catalog's ids only when it has none
C1_BuilderOnlyForAuthorizedPlans ==
    [][\A i \in Slots :
          InvokesBuilder(i) =>
              \A k \in 1..Len(handlers'[i].config.charts) :
                  handlers'[i].config.charts[k].dataset_id
                      \in Authorized(SessOf(i).user, datasets)]_vars

\* C2: in a session whose verified identity has an empty datasets mapping
\* no plan passes validation and the Dashboard Builder is never invoked,
\* whatever the admin catalog holds
C2_EmptyIdentityNeverBuilds ==
    \A i \in Slots :
        handlers[i].pc \in BuildPcs =>
            ~(SessOf(i).user # None /\ SessOf(i).user.datasets = EmptyDict)

\* C5: a session is never left stuck in building: whenever no message is
\* being handled for a session, its state is not building
C5_NeverStuckInBuilding ==
    \A k \in DOMAIN sessions :
        (\A i \in Slots : handlers[i].pc = "idle" \/ handlers[i].sid # k)
            => heap[sessions[k]].state # "building"

\* C6: the state of every session is always one of new, proposing,
\* waiting_confirm, building, done
C6_StateIsOneOfFive ==
    \A ref \in DOMAIN heap : heap[ref].state \in States

\* C6 witness: a stored session has gone through all five states: it was
\* built (done) and a later message restarted it (proposing)
C6_Witness ==
    \E k \in DOMAIN sessions :
        /\ heap[sessions[k]].state = "proposing"
        /\ heap[sessions[k]].dashboard_url # None

\* a /message request for session id k is accepted in this step
Received(k) ==
    /\ served' = served + 1
    /\ \/ \E i \in Slots : /\ handlers[i].pc = "idle"
                           /\ handlers'[i].pc # "idle"
                           /\ handlers'[i].sid = k
       \/ /\ handlers' = handlers
          /\ response'.sid = k

\* C7: a session idle for longer than the timeout is treated as absent: a
\* message sent to it does not go on from the old state and history, the
\* session it leaves behind is a new one with no earlier turn
C7_ExpiredSessionStartsAnew ==
    [][\A k \in Keys :
          (k \in DOMAIN sessions /\ Expired(heap[sessions[k]]) /\ Received(k))
              => (k \in DOMAIN sessions' =>
                     /\ heap'[sessions'[k]].state = "new"
                     /\ Len(heap'[sessions'[k]].history) <= 1)]_vars

\* handler i takes the build transition in this step (lines 279-292)
Confirms(i) ==
    /\ handlers[i].pc \in {"idle", "verify_late"}
    /\ handlers'[i].pc = "plan"

\* the build of handler i ends in this step with every chart linked
Succeeds(i) ==
    /\ handlers[i].pc = "build_link"
    /\ handlers'[i].pc = "idle"
    /\ \A k \in 1..Len(handlers[i].chart_ids) :
           <<handlers[i].dash_id, handlers[i].chart_ids[k]>> \in dashboard_slices'

\* C8: an affirmative message in waiting_confirm moves the session to
\* building, and when extraction, validation and build succeed the session
\* ends in done with dashboard_url the URL of the built dashboard, and the
\* reply contains that URL and the plan's chart count n, "1 chart" for
\* n = 1 and "n charts" for n > 1
C8_SuccessfulBuildEndsDone ==
    [][\A i \in Slots :
          /\ Confirms(i) =>
                /\ heap[handlers'[i].sess].state = "waiting_confirm"
                /\ heap'[handlers'[i].sess].state = "building"
          /\ Succeeds(i) =>
                LET r == handlers[i]
                    n == Len(r.config.charts)
                    url == DashboardUrl(r.dash_id)
                    reply == response'.body.reply
                IN  /\ r.sess \in DOMAIN heap' =>
                          /\ heap'[r.sess].state = "done"
                          /\ heap'[r.sess].dashboard_url = Just(url)
                    /\ response'.body.state = "done"
                    /\ Contains(reply, url)
                    /\ n = 1 => Contains(reply, <<"1", " chart", " in your dashboard: ">>)
                    /\ n > 1 => Contains(reply, Str(n) \o <<" chart", "s", " in your dashboard: ">>)
      ]_vars

\* C8 witness: a build of two charts has succeeded: the response says done
\* and "2 charts", and the stored session is done with a dashboard URL
C8_Witness ==
    /\ "body" \in DOMAIN response
    /\ response.body.state = "done"
    /\ Contains(response.body.reply, <<"2", " chart", "s">>)
    /\ \E k \in DOMAIN sessions :
           /\ heap[sessions[k]].state = "done"
           /\ heap[sessions[k]].dashboard_url # None

\* the lower-cased text contains one of the confirmation phrases
Affirmative(msg) ==
    \E w \in YES : \E p \in 1..Len(msg) :
        /\ p + Len(w) - 1 <= Len(msg)
        /\ SubSeq(Lower(msg), p, p + Len(w) - 1) = w

\* handler i passes line 268 in this step and waits for the model
Dispatched(i) ==
    /\ handlers[i].pc \in {"idle", "verify_late"}
    /\ handlers'[i].pc \in {"propose", "plan", "continue", "restart"}

\* the model answers the continuation of handler i in this step
Continued(i) ==
    /\ handlers[i].pc = "continue"
    /\ handlers'[i].pc = "idle"
    /\ ~StartsWith(response'.body.reply, <<"Error: ">>)

\* C9: in waiting_confirm a message takes the build transition (directive
\* turn appended, state building, structured plan requested) exactly when
\* its lower-cased text contains a confirmation phrase; any other message
\* is a continuation: only the user turn is added, the state stays, and
\* the model's response is appended with no build and no change of state
C9_BuildIffAffirmative ==
    [][\A i \in Slots :
          /\ (Dispatched(i) /\ handlers'[i].sess \in DOMAIN heap
                            /\ heap[handlers'[i].sess].state = "waiting_confirm") =>
                LET old == heap[handlers'[i].sess]
                    new == heap'[handlers'[i].sess]
                    turn == new.history[Len(old.history) + 1]
                IN  /\ turn.role = "user"
                    /\ IF Affirmative(turn.content)
                       THEN /\ handlers'[i].pc = "plan"
                            /\ new.history = old.history \o <<turn, Turn("user", DIRECTIVE)>>
                            /\ new.state = "building"
                       ELSE /\ handlers'[i].pc = "continue"
                            /\ new.history = old.history \o <<turn>>
                            /\ new.state = "waiting_confirm"
          /\ Continued(i) =>
                /\ response'.body.state = "waiting_confirm"
                /\ Platform' = Platform
                /\ handlers[i].sess \in DOMAIN heap' =>
                      /\ heap'[handlers[i].sess].history =
                             Append(heap[handlers[i].sess].history,
                                    Turn("assistant", response'.body.reply))
                      /\ heap'[handlers[i].sess].state = heap[handlers[i].sess].state
      ]_vars

\* C9 witness: "nowhere" was sent in waiting_confirm and is being handled
\* as a continuation
C9_Witness ==
    \E i \in Slots :
        /\ handlers[i].pc = "continue"
        /\ SessOf(i).state = "waiting_confirm"
        /\ SessOf(i).history[Len(SessOf(i).history)].content
               = <<"n", "o", "w", "h", "e", "r", "e">>

\* a /message request is answered in this step
Answered ==
    \/ \E i \in Slots : handlers[i].pc # "idle" /\ handlers'[i].pc = "idle"
    \/ served' # served /\ handlers' = handlers

\* C10: every message request that ends, whatever failed on the way, is
\* answered with status 200 and a body carrying a reply and a state
C10_AlwaysWellFormedResponse ==
    [][Answered =>
          /\ "op" \in DOMAIN response'
          /\ response'.op = "message"
          /\ response'.status_code = 200
          /\ {"reply", "state"} \subseteq DOMAIN response'.body]_vars

\* C10 witness: the language model failed with a billing error and the
\* request was answered with the error reply
C10_Witness ==
    /\ "body" \in DOMAIN response
    /\ response.status_code = 200
    /\ response.body.state = "new"
    /\ response.body.reply =
           <<"Error: ", "Insufficient API credits. Please check your LLM provider billing.">>

\* a chart that lacks one of the five required keys
Incomplete(c) == ~(ChartKeys \subseteq DOMAIN c)

\* the ids the caller of a validation is authorized for
Permitted(user_datasets, catalog) ==
    IF user_datasets # None THEN Ids(user_datasets) ELSE Ids(catalog)

\* a chart that names a dataset the caller is not authorized for
Unauthorized(c, ids) == "dataset_id" \in DOMAIN c /\ c.dataset_id \notin ids

\* _validate_config has returned from the call
Validated == call # None /\ call.fn = "_validate_config" /\ result # Unset

\* C13: for a plan that has both a chart missing a required key and a chart
\* with an unauthorized dataset_id, in any chart order, validation raises
\* the structural error, never the authorization error
C13_StructuralBeforeAuthorization ==
    (/\ Validated
     /\ {"dashboard_title", "charts"} \subseteq DOMAIN call.config
     /\ \E k \in 1..Len(call.config.charts) : Incomplete(call.config.charts[k])
     /\ \E k \in 1..Len(call.config.charts) :
            Unauthorized(call.config.charts[k],
                         Permitted(call.user_datasets, call.catalog)))
        => (result.raised /\ result.error = "missing keys")

\* a plan without dashboard_title, with an empty charts sequence, or with a
\* chart that lacks a required key
Defective(config) ==
    \/ "dashboard_title" \notin DOMAIN config
    \/ /\ "charts" \in DOMAIN config
       /\ \/ config.charts = <<>>
          \/ \E k \in 1..Len(config.charts) : Incomplete(config.charts[k])

\* C14: validation rejects every plan that lacks dashboard_title, has an
\* empty charts sequence or has a chart lacking one of the five keys, and
\* no such plan is handed to the Dashboard Builder
C14_DefectivePlansRejected ==
    /\ (Validated /\ Defective(call.config)) => result.raised
    /\ (call # None /\ call.fn = "plan" /\ result # Unset /\ ~result.raised)
           => ("charts" \in DOMAIN result.value /\ ~Defective(result.value))

\* C14 witness: a titled plan whose second chart lacks three keys, every
\* dataset authorized, was rejected
C14_Witness ==
    /\ Validated
    /\ call.config = [dashboard_title |-> "Sales",
                      charts |-> <<ChartSpec(1, "c1"),
                                   [dataset_id |-> 1, chart_title |-> "c3"]>>]
    /\ call.user_datasets = None
    /\ call.catalog # EmptyDict
    /\ result.raised

\* a legacy single-chart plan: no charts key, the five chart keys at top level
IsLegacy(config) == "charts" \notin DOMAIN config /\ ChartKeys \subseteq DOMAIN config

\* the plan with a one-element charts sequence equivalent to a legacy plan
Equivalent(config) ==
    [dashboard_title |-> IF "dashboard_title" \in DOMAIN config
                         THEN config.dashboard_title ELSE "Dashboard",
     charts |-> << [k \in ChartKeys |-> config[k]] >>]

\* C15: normalizing a legacy single-chart plan yields what normalizing the
\* equivalent plan with a one-element charts sequence yields, the title
\* being the placeholder "Dashboard" when absent; normalizing a plan that
\* has a charts key returns it unchanged
C15_LegacyNormalization ==
    (call # None /\ call.fn = "_normalize_config" /\ result # Unset) =>
        /\ IsLegacy(call.config) =>
              /\ result = Return(Equivalent(call.config))
              /\ result = _normalize_config(Equivalent(call.config))
        /\ "charts" \in DOMAIN call.config => result = Return(call.config)

\* C15 witness: a legacy plan without a title was normalized
C15_Witness ==
    /\ call # None /\ call.fn = "_normalize_config" /\ result # Unset
    /\ call.config = ChartSpec(2, "c2")
    /\ result.value.dashboard_title = "Dashboard"
    /\ Len(result.value.charts) = 1

\* _build_position_json has returned from the call
LaidOut == call # None /\ call.fn = "_build_position_json" /\ result # Unset

\* the elements of a layout document that are of the given type
Elements(position, type) ==
    {key \in DOMAIN position :
        "type" \in DOMAIN position[key] /\ position[key].type = type}

\* C16: for n >= 1 chart ids the grid has ceil(n/2) rows, the children of
\* the single grid container in order; the charts are placed in input
\* order, two per row with width 6 each, and for odd n the last chart is
\* alone in the last row with width 12; every input chart id is the chart
\* of exactly one element, in exactly one row
C16_GridLayout ==
    LaidOut =>
        LET position == result.value
            ids == call.chart_ids
            n == Len(ids)
            rows == position[<<"GRID_ID">>].children
            charts_of(k) == position[rows[k]].children
            chart(k, j) == position[charts_of(k)[j]]
        IN  /\ Elements(position, "GRID") = {<<"GRID_ID">>}
            /\ position[<<"ROOT_ID">>].children = << <<"GRID_ID">> >>
            /\ Len(rows) = (n + 1) \div 2
            /\ Elements(position, "ROW") = {rows[k] : k \in 1..Len(rows)}
            /\ Cardinality(Elements(position, "ROW")) = Len(rows)
            /\ Cardinality(Elements(position, "CHART")) = n
            /\ \A k \in 1..Len(rows) :
                  IF 2 * k <= n
                  THEN /\ Len(charts_of(k)) = 2
                       /\ \A j \in 1..2 :
                             /\ chart(k, j).type = "CHART"
                             /\ chart(k, j).meta.chartId = ids[2 * (k - 1) + j]
                             /\ chart(k, j).meta.width = 6
                  ELSE /\ Len(charts_of(k)) = 1
                       /\ chart(k, 1).type = "CHART"
                       /\ chart(k, 1).meta.chartId = ids[n]
                       /\ chart(k, 1).meta.width = 12
            /\ \A c \in Elements(position, "CHART") :
                  Cardinality({k \in 1..Len(rows) :
                      \E j \in 1..Len(charts_of(k)) : charts_of(k)[j] = c}) = 1

\* C16 witness: five chart ids were laid out in three rows, the last of
\* them holding one chart of width 12
C16_Witness ==
    /\ LaidOut
    /\ Len(call.chart_ids) = 5
    /\ Len(result.value[<<"GRID_ID">>].children) = 3
    /\ result.value[<<"CHART-", "5">>].meta.width = 12
    /\ result.value[<<"CHART-", "4">>].meta.width = 6

\* a reset request is answered in this step
ResetDone == "op" \in DOMAIN response' /\ response'.op = "reset"

\* C12: a reset removes the session of its key at once, whatever its state
\* and whether or not there is one; a session that comes into being for a
\* key without session starts in state new with no turn but, once it is
\* appended, the message that created it
C12_ResetRemovesSession ==
    [][/\ ResetDone =>
            /\ response'.sid \notin DOMAIN sessions'
            /\ response'.status = "ok"
            /\ \A k \in DOMAIN sessions \ {response'.sid} :
                   k \in DOMAIN sessions' /\ sessions'[k] = sessions[k]
       /\ \A k \in Keys :
            (k \notin DOMAIN sessions /\ k \in DOMAIN sessions') =>
                LET new == heap'[sessions'[k]]
                IN  /\ sessions'[k] \notin DOMAIN heap
                    /\ new.state = "new"
                    /\ Len(new.history) <= 1
                    /\ \A t \in 1..Len(new.history) : new.history[t].role = "user"
                    /\ new.dashboard_url = None
                    /\ new.proposed_config = None
      ]_vars

\* C12 witness: a session was reset while its build was under way
C12_Witness ==
    /\ "op" \in DOMAIN response
    /\ response.op = "reset"
    /\ response.sid \notin DOMAIN sessions
    /\ \E i \in Slots :
           /\ handlers[i].pc \in BuildPcs
           /\ handlers[i].sid = response.sid
           /\ SessOf(i).state = "building"

\* _build_dashboard of handler i returns a URL in this step and the
\* session is done
Done(i) ==
    /\ handlers[i].pc = "build_link"
    /\ handlers'[i].pc = "idle"
    /\ response'.body.state = "done"

\* the charts linked to dashboard d
Linked(slices, d) == {c \in 1..Len(charts) : <<d, c>> \in slices}

\* C17: whenever a build returns a URL, one chart was created per chart
\* spec of the plan, in order, one dashboard was created for the build and
\* lays out exactly these charts, and every one of the chart ids is linked
\* to that dashboard and to no other; a link that is already in the table
\* stays, and a dashboard comes into being only in a build, one at a time
C17_BuildFullyLinkedOrFails ==
    [][/\ \A i \in Slots :
            Done(i) =>
                LET r == handlers[i]
                    n == Len(r.config.charts)
                IN  /\ Len(r.chart_ids) = n
                    /\ \A j, k \in 1..n : r.chart_ids[j] = r.chart_ids[k] => j = k
                    /\ \A k \in 1..n :
                          /\ r.chart_ids[k] \in 1..Len(charts)
                          /\ charts[r.chart_ids[k]].datasource_id
                                 = r.config.charts[k].dataset_id
                          /\ charts[r.chart_ids[k]].slice_name
                                 = r.config.charts[k].chart_title
                          /\ \A d \in 1..Len(dashboards) :
                                 <<d, r.chart_ids[k]>> \in dashboard_slices'
                                     <=> d = r.dash_id
                    /\ r.dash_id \in 1..Len(dashboards)
                    /\ dashboards[r.dash_id].dashboard_title = r.config.dashboard_title
                    /\ Linked(dashboard_slices', r.dash_id)
                           = {r.chart_ids[k] : k \in 1..n}
                    /\ response'.body.dashboard_url = DashboardUrl(r.dash_id)
       /\ dashboard_slices \subseteq dashboard_slices'
       /\ dashboards' # dashboards =>
             /\ dashboards = SubSeq(dashboards', 1, Len(dashboards))
             /\ Len(dashboards') = Len(dashboards) + 1
             /\ \E i \in Slots : /\ handlers[i].pc = "build_dashboard"
                                 /\ handlers'[i].pc = "build_link"
                                 /\ handlers'[i].dash_id = Len(dashboards')
      ]_vars

\* C17 witness: a build of two charts has returned its URL with both charts
\* linked to its dashboard
C17_Witness ==
    /\ "body" \in DOMAIN response
    /\ response.body.state = "done"
    /\ \E d \in 1..Len(dashboards) : Cardinality(Linked(dashboard_slices, d)) = 2

\* the model's proposal for handler i, waiting at pc, arrives in this step
Proposed(i, pc) ==
    /\ handlers[i].pc = pc
    /\ handlers'[i].pc = "idle"
    /\ ~StartsWith(response'.body.reply, <<"Error: ">>)

\* the message handler i took in is the turn m
Took(i, m) ==
    /\ m.role = "user"
    /\ handlers[i].pc = "verify_late" => m.content = handlers[i].user_msg

C20_DoneRestarts ==
    [][\A i \in Slots :
          /\ (Dispatched(i) /\ handlers'[i].sess \in DOMAIN heap
                            /\ heap[handlers'[i].sess].state = "done") =>
                LET new == heap'[handlers'[i].sess]
                IN  /\ handlers'[i].pc = "restart"
                    /\ new.state = "proposing"
                    /\ Len(new.history) = 1
                    /\ Took(i, new.history[1])
                    /\ new.history[1].content # DIRECTIVE
          /\ Proposed(i, "restart") =>
                /\ response'.body.state = "waiting_confirm"
                /\ handlers[i].sess \in DOMAIN heap' =>
                      /\ heap'[handlers[i].sess].history =
                             Append(SessOf(i).history,
                                    Turn("assistant", response'.body.reply))
                      /\ heap'[handlers[i].sess].state = "waiting_confirm"
      ]_vars

\* C20 witness: a session with a built dashboard was restarted by one
\* message and holds that message and the new proposal, nothing else
C20_Witness ==
    \E k \in DOMAIN sessions :
        LET s == heap[sessions[k]]
        IN  /\ s.dashboard_url # None
            /\ s.state = "waiting_confirm"
            /\ Len(s.history) = 2
            /\ s.history[1].role = "user"
            /\ s.history[2].role = "assistant"

\* a history request is answered in this step
HistoryDone == "op" \in DOMAIN response' /\ response'.op = "history"

\* C11: history returns, in order, exactly the turns that are not directive
\* turns: every turn the user typed or the model returned is there; for an
\* absent session it returns an empty list, and for a session idle longer
\* than the timeout an empty list, dropping the session
C11_HistoryShowsAllButDirectives ==
    [][HistoryDone =>
          LET k == response'.sid
          IN  IF k \notin DOMAIN sessions
              THEN response'.messages = <<>> /\ sessions' = sessions
              ELSE IF Expired(heap[sessions[k]])
              THEN response'.messages = <<>> /\ k \notin DOMAIN sessions'
              ELSE /\ response'.messages =
                          SelectSeq(heap[sessions[k]].history,
                                    LAMBDA m : m # Turn("user", DIRECTIVE))
                   /\ sessions' = sessions]_vars

\* the session keys the requests that take a step here were made for
StepKeys ==
    ({handlers[i].sid : i \in {j \in Slots : handlers'[j] # handlers[j]}}
        \cup {handlers'[i].sid : i \in {j \in Slots : handlers'[j] # handlers[j]}}
        \cup (IF ResetDone \/ HistoryDone THEN {response'.sid} ELSE {}))
    \ {""}

BuilderFails(i) ==
    /\ handlers[i].pc \in BuildPcs
    /\ handlers'[i].pc = "idle"
    /\ response'.body.state = "waiting_confirm"

\* s is t or t with elements appended
Extends(s, t) == Len(t) <= Len(s) /\ SubSeq(s, 1, Len(t)) = t

\* C21: the steps of a build run in a fixed order and stop at the first
\* failure: charts are created one by one in plan order, the dashboard
\* only after every chart, links only after the dashboard; the failing
\* step creates no chart and no dashboard, the build takes no later step,
\* and nothing created before is deleted
C21_BuildOrderAndAbort ==
    [][/\ Extends(charts', charts)
       /\ Extends(dashboards', dashboards)
       /\ dashboard_slices \subseteq dashboard_slices'
       /\ charts' # charts =>
             \E i \in Slots :
                 LET r == handlers[i]
                     k == Len(r.chart_ids) + 1
                 IN  /\ r.pc = "build_chart"
                     /\ r.dash_id = 0
                     /\ dashboards' = dashboards
                     /\ Len(charts') = Len(charts) + 1
                     /\ charts'[Len(charts')].slice_name = r.config.charts[k].chart_title
                     /\ charts'[Len(charts')].datasource_id = r.config.charts[k].dataset_id
                     /\ handlers'[i].chart_ids = Append(r.chart_ids, Len(charts'))
       /\ dashboards' # dashboards =>
             \E i \in Slots :
                 /\ handlers[i].pc = "build_dashboard"
                 /\ Len(handlers[i].chart_ids) = Len(handlers[i].config.charts)
                 /\ Len(dashboards') = Len(dashboards) + 1
                 /\ dashboard_slices' = dashboard_slices
       /\ dashboard_slices' # dashboard_slices =>
             \E i \in Slots :
                 LET r == handlers[i]
                 IN  /\ r.pc = "build_link"
                     /\ r.dash_id \in 1..Len(dashboards)
                     /\ Len(r.chart_ids) = Len(r.config.charts)
                     /\ \E n \in 1..Len(r.chart_ids) :
                            dashboard_slices' \ dashboard_slices
                                = {<<r.dash_id, r.chart_ids[k]>> : k \in 1..n}
       /\ \A i \in Slots :
             BuilderFails(i) =>
                 /\ charts' = charts
                 /\ dashboards' = dashboards
                 /\ handlers[i].pc # "build_link" => dashboard_slices' = dashboard_slices
                 /\ handlers'[i] = IdleHandler
      ]_vars

\* C21 witness: the second chart of a build failed after the first was
\* created: the chart is still there and there is no dashboard
C21_Witness ==
    /\ "body" \in DOMAIN response
    /\ response.body.reply = BuildFailedReply("chart failed")
    /\ Len(charts) = 1
    /\ dashboards = <<>>
    /\ dashboard_slices = {}

\* C22: when a build step fails after chart resources were created, the
\* error the Dashboard Builder propagates is a BuildFailed error that
\* carries the partial progress, the ids of the resources created so far
C22_BuildFailedCarriesProgress ==
    [][\A i \in Slots :
          (BuilderFails(i) /\ handlers[i].chart_ids # <<>>) =>
              LET e == BuilderError(handlers[i].pc)
              IN  /\ response'.body.reply = BuildFailedReply(e.message)
                  /\ e.type = "BuildFailed"
                  /\ "progress" \in DOMAIN e
                  /\ e.progress = handlers[i].chart_ids]_vars

\* a refresh fails in this step
RefreshAborts == refresher.pc \in {"list", "fetch"} /\ refresher'.pc = "idle"

\* C23: the catalog cache changes only when a refresh has completed, and
\* then to the whole non-empty result of that refresh; a refresh that
\* fails at login, listing or fetching leaves the cache as it was, and
\* while a refresh collects its result the cache readers see is the old one
C23_CacheReplacedWholesale ==
    [][/\ datasets' # datasets =>
             /\ refresher.pc = "close"
             /\ refresher.pending = <<>>
             /\ refresher.loaded # EmptyDict
             /\ datasets' = refresher.loaded
       /\ RefreshAborts => datasets' = datasets
       /\ refresher'.pc \in {"list", "fetch", "close"} => datasets' = datasets
       /\ (handlers[1].pc = "verify_new" /\ handlers'[1].pc # "verify_new"
             /\ heap'[handlers'[1].sess].user # None) =>
             Ids(heap'[handlers'[1].sess].user.datasets) \subseteq Ids(datasets)
      ]_vars

\* C23 witness: a later refresh has collected part of its result, which
\* differs from the cache of an earlier refresh, while a message waits for
\* its verification
C23_Witness ==
    /\ refresher.pc = "fetch"
    /\ refresher.loaded # EmptyDict
    /\ datasets # EmptyDict
    /\ refresher.loaded # datasets
    /\ handlers[1].pc = "verify_new"

\* C24: a session that holds a verified identity keeps it unchanged in
\* every step
C24_IdentitySetOnce ==
    [][\A ref \in DOMAIN heap \cap DOMAIN heap' :
          heap[ref].user # None => heap'[ref].user = heap[ref].user]_vars

\* C25: the state in the body of every message response is the state
\* stored for the session of that key when the response is returned
C25_ResponseStateIsStored ==
    [][(/\ Answered
        /\ "op" \in DOMAIN response'
        /\ response'.op = "message"
        /\ response'.sid \in DOMAIN sessions') =>
          /\ "state" \in DOMAIN response'.body
          /\ response'.body.state = heap'[sessions'[response'.sid]].state]_vars

\* the handlers that are inside _build_dashboard for session key k
Building(k) == {i \in Slots : handlers[i].pc \in BuildPcs /\ handlers[i].sid = k}

\* C26: for one session key at most one dashboard build is in progress
C26_OneBuildPerKey ==
    \A k \in Keys : Cardinality(Building(k)) <= 1

====
